---- MODULE Spec2Model ----
(***************************************************************************)
(* A model of the two notebooks of violettance/ml_algorithms:              *)
(*   src/imbalanced_learning.ipynb  and  src/ensemble_learning.ipynb.      *)
(*                                                                         *)
(* A notebook is a kernel namespace (ns) on which code cells run, in any   *)
(* order and any number of times.  A cell is a list of Python statements;  *)
(* running a cell executes them in order until one raises.  Every cell of  *)
(* the notebooks is transcribed statement by statement (Stmt records carry *)
(* the source line).  The estimators of scikit-learn / imbalanced-learn    *)
(* are outside the repository: they are modelled by what their calls do to *)
(* the shapes of tables and vectors, by which of them draw random numbers, *)
(* and by stand-in numeric rules for the values they return.               *)
(***************************************************************************)
EXTENDS Integers, Sequences, FiniteSets, TLC

VARIABLES
    notebook,    \* which notebook this kernel belongs to ("" : no kernel)
    world,       \* what the seeded generators and the bundled datasets return
    ns,          \* the kernel namespace: variable name -> value
    out,         \* the output area of every code cell (lines printed by its last run)
    trace,       \* the statements executed by the last cell run, in order
    run,         \* the last cell run: which cell, and the exception that halted it
    np_random,   \* state of numpy's global random generator (0: not seeded yet)
    nruns,       \* number of cell runs so far
    nfaults,     \* number of library calls that raised for an outside reason
    fin,         \* input of a function checked on its own
    fout         \* its result

vars == <<notebook, world, ns, out, trace, run, np_random, nruns, nfaults, fin, fout>>

----------------------------------------------------------------------------
(* Bounds of the model.                                                    *)

\* rows of every dataset (the notebooks use 1000, 1797, 178 and 442 rows)
NSamples == 7
\* columns of every dataset (the notebooks use 20, 64, 13 and 10 columns)
NFeatures == 2
\* cell runs in one behaviour
MaxRuns == 4
\* library calls that raise for a reason outside the data, in one behaviour
MaxFaults == 1
\* length of the label vectors class_weight is computed for on its own
MaxLen == 4
\* largest class label of those vectors
MaxLabel == 2
\* rows of the tables train_test_split is applied to on its own
MaxSplit == 6

----------------------------------------------------------------------------
(* Sequences, tables and vectors.                                          *)

RECURSIVE Sum(_)
Sum(s) == IF s = <<>> THEN 0 ELSE Head(s) + Sum(Tail(s))

RECURSIVE TableSum(_)
TableSum(X) == IF X = <<>> THEN 0 ELSE Sum(Head(X)) + TableSum(Tail(X))

RECURSIVE SelectIdx(_, _)
\* s[idx] for a sequence of indices idx (numpy fancy indexing)
SelectIdx(s, idx) ==
    IF idx = <<>> THEN <<>> ELSE <<s[Head(idx)]>> \o SelectIdx(s, Tail(idx))

RECURSIVE SelectMask(_, _)
\* s[mask] for a boolean mask of the same length (numpy boolean indexing)
SelectMask(s, mask) ==
    IF s = <<>> THEN <<>>
    ELSE (IF Head(mask) THEN <<Head(s)>> ELSE <<>>) \o SelectMask(Tail(s), Tail(mask))

Range(s) == {s[i] : i \in DOMAIN s}

Count(y, c) == Cardinality({i \in DOMAIN y : y[i] = c})

RECURSIVE SortSet(_)
\* the elements of a finite set of integers, ascending
SortSet(S) ==
    IF S = {} THEN <<>>
    ELSE LET m == CHOOSE x \in S : \A z \in S : x <= z
         IN  <<m>> \o SortSet(S \ {m})

CeilDiv(a, b) == (a + b - 1) \div b

Abs(a) == IF a < 0 THEN -a ELSE a

\* number of columns of a table (0 for a table without rows)
NCols(X) == IF X = <<>> THEN 0 ELSE Len(X[1])

\* a table is rectangular: every row has the same number of columns
Rectangular(X) == \A i \in DOMAIN X : Len(X[i]) = NCols(X)

----------------------------------------------------------------------------
(* Values held by the namespace.                                           *)

Undef == [t |-> "undef"]
Callable(name) == [t |-> "callable", name |-> name]
Table(rows) == [t |-> "table", rows |-> rows]
Vector(v) == [t |-> "vector", v |-> v]
Scalar(num, den) == [t |-> "scalar", num |-> num, den |-> den]
Dict(keys, vals) == [t |-> "dict", keys |-> keys, vals |-> vals]
Bunch(data, target) == [t |-> "bunch", data |-> data, target |-> target]

\* an estimator object as its constructor leaves it: not fitted
Estimator(cls, seeded, random_state, parts) ==
    [t |-> "estimator", cls |-> cls, seeded |-> seeded, random_state |-> random_state,
     parts |-> parts, hyper |-> 0, fitted |-> FALSE, params |-> 0, classes |-> <<>>,
     ncols |-> 0, predicts |-> 0]

----------------------------------------------------------------------------
(* The datasets.  world.minority is the number of rows of class 1 that the *)
(* seeded generator puts in the table and world.shift selects the          *)
(* permutation that RandomState(42) produces: both are fixed for a kernel  *)
(* (the seeds are literals of the notebooks) but unknown to the model.     *)

Minorities == 1..(NSamples \div 3)
Shifts == {0, NSamples - 1}
Rotation(n, shift) == [i \in 1..n |-> ((i - 1 + shift) % n) + 1]
\* seeds numpy's global generator may take from the operating system
Entropy == {1, 2}

Worlds == [minority : Minorities, perm : {Rotation(NSamples, sh) : sh \in Shifts}]

\* make_classification(n_samples, n_features, weights=[0.99, 0.01], random_state=42)
make_classification(w) ==
    [X |-> [i \in 1..NSamples |-> [j \in 1..NFeatures |-> (i * j) % 3]],
     y |-> [i \in 1..NSamples |-> IF i > NSamples - w.minority THEN 1 ELSE 0]]

\* load_digits(): .data and .target, ten digit classes (three in the model);
\* the three bundled datasets differ in rows and columns (1797 x 64, 178 x 13,
\* 442 x 10)
load_digits(w) ==
    Bunch([i \in 1..NSamples |-> [j \in 1..(NFeatures + 1) |-> (i + j) % 3]],
          [i \in 1..NSamples |-> (i + w.minority) % 3])

\* load_wine(): .data and .target, three classes
load_wine(w) ==
    Bunch([i \in 1..(NSamples - 1) |-> [j \in 1..NFeatures |-> (i * j + 1) % 3]],
          [i \in 1..(NSamples - 1) |-> (2 * i + w.minority) % 3])

\* load_diabetes(): .data and a numeric .target (disease progression)
load_diabetes(w) ==
    Bunch([i \in 1..(NSamples - 2) |-> [j \in 1..NFeatures |-> (i + 2 * j) % 3]],
          [i \in 1..(NSamples - 2) |-> 149 + ((i + w.minority) % 3)])

\* test_size=0.2 as a fraction
TestSizeNum == 1
TestSizeDen == 5

\* RandomState(42).permutation(n): the world's permutation for the n it was
\* drawn for, and for another n the rotation that starts at the same row
Permutation(n, perm) == IF Len(perm) = n THEN perm ELSE Rotation(n, perm[1] % n)

\* ShuffleSplit with the train slice starting one element early
ShuffleSplitOverlap(n, perm) ==
    LET n_test == CeilDiv(n * TestSizeNum, TestSizeDen)
        p == Permutation(n, perm)
    IN  [test |-> SubSeq(p, 1, n_test), train |-> SubSeq(p, n_test, n)]

\* sklearn's ShuffleSplit: n_test = ceil(test_size * n), n_train = n - n_test,
\* test = permutation[:n_test], train = permutation[n_test : n_test + n_train]
ShuffleSplit(n, perm) ==
    LET n_test == CeilDiv(n * TestSizeNum, TestSizeDen)
        n_train == n - n_test
        p == Permutation(n, perm)
    IN  [test |-> SubSeq(p, 1, n_test),
         train |-> SubSeq(p, n_test + 1, n_test + n_train)]

\* train_test_split(X, y, test_size=0.2, random_state=42)
train_test_split(X, y, perm) ==
    IF Len(X) # Len(y) \/ Len(X) = 0
      THEN [exc |-> "ValueError", vals |-> <<>>]
    ELSE LET idx == ShuffleSplit(Len(X), perm)
         IN  IF Len(idx.train) = 0
               THEN [exc |-> "ValueError", vals |-> <<>>]
             ELSE [exc |-> "",
                   vals |-> << Table(SelectIdx(X, idx.train)), Table(SelectIdx(X, idx.test)),
                               Vector(SelectIdx(y, idx.train)), Vector(SelectIdx(y, idx.test)) >>]

----------------------------------------------------------------------------
(* Class statistics.                                                       *)

\* np.unique(y): the labels that occur, ascending
unique(y) == SortSet(Range(y))

\* np.bincount(y) without the bin of label 0
bincount_from_one(y) ==
    IF y = <<>> THEN <<>>
    ELSE LET top == CHOOSE m \in Range(y) : \A z \in Range(y) : z <= m
         IN  [k \in 1..top |-> Count(y, k)]

\* np.bincount(y): element i (0-based) counts the occurrences of the value i,
\* for i = 0 .. max(y); empty for an empty y
bincount(y) ==
    IF y = <<>> THEN <<>>
    ELSE LET top == CHOOSE m \in Range(y) : \A z \in Range(y) : z <= m
         IN  [k \in 1..(top + 1) |-> Count(y, k - 1)]

\* dict(zip(keys, values)): pairs up to the shorter of the two
dict_zip(keys, values) ==
    LET n == IF Len(keys) < Len(values) THEN Len(keys) ELSE Len(values)
    IN  Dict(SubSeq(keys, 1, n), SubSeq(values, 1, n))

\* d[k] for a key of the dictionary
DictGet(d, k) == d.vals[CHOOSE i \in DOMAIN d.keys : d.keys[i] = k]
DictKeys(d) == Range(d.keys)

\* the class with the fewest rows (the smallest label among equals) and the
\* class with the most rows, as imbalanced-learn's sampling_strategy='auto' picks them
MinorityClass(y) ==
    CHOOSE c \in Range(y) :
        \A d \in Range(y) : Count(y, c) < Count(y, d) \/ (Count(y, c) = Count(y, d) /\ c <= d)
MajorityClass(y) ==
    CHOOSE c \in Range(y) :
        \A d \in Range(y) : Count(y, c) > Count(y, d) \/ (Count(y, c) = Count(y, d) /\ c <= d)

\* indices of the rows of class c, ascending
RowsOf(y, c) == SortSet({i \in DOMAIN y : y[i] = c})

----------------------------------------------------------------------------
(* The resamplers of imbalanced-learn.  Each returns                       *)
(* [exc, X, y]: the exception it raises ("" for none) or the resampled     *)
(* table and labels.  rnd is what the estimator's random generator yields. *)

Resampled(X, y) == [exc |-> "", X |-> X, y |-> y]
Raised(e) == [exc |-> e, X |-> <<>>, y |-> <<>>]

\* check_X_y and check_sampling_strategy, which every fit_resample starts with:
\* rows must match and the target needs more than one class
BadResampleInput(X, y) ==
    Len(X) # Len(y) \/ Len(X) = 0 \/ ~Rectangular(X) \/ Cardinality(Range(y)) <= 1

\* squared euclidean distance of two rows
Dist(a, b) == Sum([j \in DOMAIN a |-> (a[j] - b[j]) * (a[j] - b[j])])

\* the nearest other row among the candidates (the lowest index among equals)
Nearest(X, i, cand) ==
    CHOOSE k \in cand \ {i} :
        \A m \in cand \ {i} :
            Dist(X[i], X[k]) < Dist(X[i], X[m]) \/ (Dist(X[i], X[k]) = Dist(X[i], X[m]) /\ k <= m)

\* TomekLinks().fit_resample: two rows of different classes that are each
\* other's nearest neighbour form a link; the row of a link that is not of the
\* minority class is removed
TomekLinks_fit_resample(X, y) ==
    IF BadResampleInput(X, y) THEN Raised("ValueError")
    ELSE LET all == DOMAIN X
             nn == [i \in all |-> Nearest(X, i, all)]
             link == [i \in all |-> y[nn[i]] # y[i] /\ nn[nn[i]] = i]
             keep == [i \in all |-> ~(link[i] /\ y[i] # MinorityClass(y))]
         IN  Resampled(SelectMask(X, keep), SelectMask(y, keep))

\* the rows of a synthetic or averaged sample keep the columns of the rows they
\* are computed from
Centroid(X, members) ==
    [j \in 1..NCols(X) |-> Sum([k \in DOMAIN members |-> X[members[k]][j]]) \div Len(members)]

\* ClusterCentroids(random_state=42).fit_resample: every class but the minority
\* is replaced by as many k-means centroids as the minority has rows; the output
\* is stacked class by class in the order of np.unique(y)
ClusterCentroids_fit_resample(X, y, rnd) ==
    IF BadResampleInput(X, y) THEN Raised("ValueError")
    ELSE LET minority == MinorityClass(y)
             k == Count(y, minority)
             classes == unique(y)
             \* the rows of class c that k-means puts in cluster q (1..k)
             cluster(c, q) ==
                 LET rows == RowsOf(y, c)
                 IN  SelectMask(rows, [p \in DOMAIN rows |-> ((p + rnd) % k) + 1 = q])
             block(c) ==
                 IF c = minority THEN SelectIdx(X, RowsOf(y, c))
                 ELSE [q \in 1..k |->
                         IF cluster(c, q) = <<>> THEN X[RowsOf(y, c)[1]]
                         ELSE Centroid(X, cluster(c, q))]
             RECURSIVE stackX(_), stacky(_)
             stackX(cs) == IF cs = <<>> THEN <<>> ELSE block(Head(cs)) \o stackX(Tail(cs))
             stacky(cs) ==
                 IF cs = <<>> THEN <<>>
                 ELSE [q \in 1..Len(block(Head(cs))) |-> Head(cs)] \o stacky(Tail(cs))
         IN  Resampled(stackX(classes), stacky(classes))

\* x + step * (neighbour - x) for step 0 or 1, column by column
Interpolate(x, nb, step) == [j \in DOMAIN x |-> x[j] + step * (nb[j] - x[j])]

\* the synthetic rows SMOTE makes for class c: one per missing row, each between
\* a row of the class and its nearest neighbour in the class
Synthetic(X, y, c, n_new, rnd) ==
    LET rows == RowsOf(y, c)
    IN  [q \in 1..n_new |->
            LET base == rows[((q + rnd) % Len(rows)) + 1]
            IN  Interpolate(X[base], X[Nearest(X, base, Range(rows))], (q + rnd) % 2)]

\* SMOTE(random_state=42).fit_resample: every class but the majority gets
\* synthetic rows until it has as many as the majority; a class needs a
\* neighbour inside the class (k_neighbors) or the call raises
SMOTE_fit_resample(X, y, rnd) ==
    IF BadResampleInput(X, y) THEN Raised("ValueError")
    ELSE LET majority == MajorityClass(y)
             others == SelectMask(unique(y), [p \in DOMAIN unique(y) |-> unique(y)[p] # majority])
             RECURSIVE newX(_), newy(_)
             n_new(c) == Count(y, majority) - Count(y, c)
             newX(cs) ==
                 IF cs = <<>> THEN <<>>
                 ELSE Synthetic(X, y, Head(cs), n_new(Head(cs)), rnd) \o newX(Tail(cs))
             newy(cs) ==
                 IF cs = <<>> THEN <<>>
                 ELSE [q \in 1..n_new(Head(cs)) |-> Head(cs)] \o newy(Tail(cs))
         IN  IF \E c \in Range(others) : Count(y, c) < 2 THEN Raised("ValueError")
             ELSE Resampled(X \o newX(others), y \o newy(others))

\* ADASYN(random_state=42).fit_resample: as SMOTE, with the synthetic rows spread
\* by the density of the other classes around each row (another draw)
ADASYN_fit_resample(X, y, rnd) == SMOTE_fit_resample(X, y, rnd + 1)

\* EditedNearestNeighbours, the cleaning step of SMOTEENN: a row whose nearest
\* neighbour has another label is removed
ENN_fit_resample(X, y) ==
    LET all == DOMAIN X
        keep == [i \in all |-> Cardinality(all) < 2 \/ y[Nearest(X, i, all)] = y[i]]
    IN  Resampled(SelectMask(X, keep), SelectMask(y, keep))

\* SMOTEENN(random_state=42).fit_resample: SMOTE, then EditedNearestNeighbours
SMOTEENN_fit_resample(X, y, rnd) ==
    LET over == SMOTE_fit_resample(X, y, rnd)
    IN  IF over.exc # "" THEN over ELSE ENN_fit_resample(over.X, over.y)

\* a resampler that returns the labels as one more column of the table
LabelColumn_fit_resample(est, X, y, rnd) ==
    IF BadResampleInput(X, y) THEN Raised("ValueError")
    ELSE Resampled([i \in DOMAIN X |-> Append(X[i], y[i])], y)

\* resampler.fit_resample(X, y), by the class of the resampler
fit_resample(est, X, y, rnd) ==
    CASE est.cls = "ClusterCentroids" -> ClusterCentroids_fit_resample(X, y, rnd)
      [] est.cls = "TomekLinks" -> TomekLinks_fit_resample(X, y)
      [] est.cls = "SMOTE" -> SMOTE_fit_resample(X, y, rnd)
      [] est.cls = "ADASYN" -> ADASYN_fit_resample(X, y, rnd)
      [] est.cls = "SMOTEENN" -> SMOTEENN_fit_resample(X, y, rnd)
      [] OTHER -> Raised("AttributeError")

----------------------------------------------------------------------------
(* The estimators of scikit-learn.                                         *)

\* classes whose fit draws random numbers
RandomClasses ==
    {"RandomForestClassifier", "DecisionTreeClassifier", "BaggingClassifier",
     "AdaBoostClassifier", "GradientBoostingClassifier", "IsolationForest",
     "ClusterCentroids", "SMOTE", "ADASYN", "SMOTEENN"}

\* classes whose fit takes no labels and whose predict answers +1 (inlier) or -1
OutlierDetectors == {"OneClassSVM", "IsolationForest"}

Resamplers == {"ClusterCentroids", "TomekLinks", "SMOTE", "ADASYN", "SMOTEENN"}

\* check_random_state(None) is numpy's global generator: an estimator that
\* draws and was given no random_state reads (and advances) the global state.
\* StackingClassifier fits the estimators it was given as they are.
DrawsGlobal(est) ==
    \/ est.cls \in RandomClasses /\ ~est.seeded
    \/ /\ est.cls = "StackingClassifier"
       /\ \E k \in DOMAIN est.parts : est.parts[k].cls \in RandomClasses /\ ~est.parts[k].seeded

\* what the estimator's generator yields during one fit or fit_resample
Draw(est, rng) ==
    IF DrawsGlobal(est) THEN rng
    ELSE est.random_state + Sum([k \in DOMAIN est.parts |-> est.parts[k].random_state])

ClsCode(cls) ==
    CASE cls = "RandomForestClassifier" -> 1
      [] cls = "DecisionTreeClassifier" -> 2
      [] cls = "BaggingClassifier" -> 3
      [] cls = "AdaBoostClassifier" -> 4
      [] cls = "GradientBoostingClassifier" -> 5
      [] cls = "StackingClassifier" -> 6
      [] cls = "LogisticRegression" -> 7
      [] cls = "OneClassSVM" -> 8
      [] cls = "IsolationForest" -> 9
      [] OTHER -> 0

\* estimator.fit(X, y): the fitted parameters are a function of the class, the
\* hyperparameters, the training table and labels and the random draws
fit(est, X, y, rnd) ==
    IF est.cls \in Resamplers \/ est.cls \in OutlierDetectors
      THEN [exc |-> "TypeError", est |-> est]
    ELSE IF Len(X) # Len(y) \/ Len(X) = 0 \/ ~Rectangular(X)
      THEN [exc |-> "ValueError", est |-> est]
    ELSE [exc |-> "",
          est |-> [est EXCEPT !.fitted = TRUE,
                              !.params = ClsCode(est.cls) + est.hyper + 7 * TableSum(X)
                                         + 3 * Sum(y) + Len(X) + rnd,
                              !.classes = unique(y),
                              !.ncols = NCols(X)]]

\* detector.fit(X): an outlier detector is fitted on a table alone
fit_unsupervised(est, X, rnd) ==
    IF est.cls \notin OutlierDetectors THEN [exc |-> "TypeError", est |-> est]
    ELSE IF Len(X) = 0 \/ ~Rectangular(X) THEN [exc |-> "ValueError", est |-> est]
    ELSE [exc |-> "",
          est |-> [est EXCEPT !.fitted = TRUE,
                              !.params = ClsCode(est.cls) + est.hyper + 7 * TableSum(X)
                                         + Len(X) + rnd,
                              !.classes = <<1, -1>>,
                              !.ncols = NCols(X)]]

\* estimator.predict(X): one label per row, among the classes seen by fit;
\* raises when the estimator is not fitted or the columns differ from fit's
predict(est, X) ==
    IF ~est.fitted THEN [exc |-> "NotFittedError", v |-> <<>>]
    ELSE IF Len(X) = 0 \/ ~Rectangular(X) \/ NCols(X) # est.ncols
      THEN [exc |-> "ValueError", v |-> <<>>]
    ELSE [exc |-> "",
          v |-> [i \in DOMAIN X |->
                    est.classes[((est.params + Sum(X[i]) + i) % Len(est.classes)) + 1]]]

\* accuracy_score(y_true, y_pred, normalize=False): the number of agreeing positions
accuracy_score_count(y_true, y_pred) ==
    IF Len(y_true) # Len(y_pred) THEN [exc |-> "ValueError", value |-> Scalar(0, 0)]
    ELSE [exc |-> "",
          value |-> Scalar(Cardinality({i \in DOMAIN y_true : y_true[i] = y_pred[i]}), 1)]

\* accuracy_score(y_true, y_pred): the share of positions where the two agree
accuracy_score(y_true, y_pred) ==
    IF Len(y_true) # Len(y_pred) THEN [exc |-> "ValueError", value |-> Scalar(0, 0)]
    ELSE [exc |-> "",
          value |-> Scalar(Cardinality({i \in DOMAIN y_true : y_true[i] = y_pred[i]}),
                           Len(y_true))]

\* y_train == 1: the boolean mask of the rows labelled 1
anomaly_mask(y) == [i \in DOMAIN y |-> y[i] = 1]

\* X[mask]: the rows the mask selects
anomalies(X, mask) == SelectMask(X, mask)

\* X[~mask]: the rows the mask does not select
inliers(X, mask) == SelectMask(X, [i \in DOMAIN mask |-> ~mask[i]])

\* (y >= 150).astype(int)
binarize_at_least(y) == [i \in DOMAIN y |-> IF y[i] >= 150 THEN 1 ELSE 0]

\* (y > 150).astype(int)
binarize(y) == [i \in DOMAIN y |-> IF y[i] > 150 THEN 1 ELSE 0]

\* y[y == old] = new, in place
relabel(v, old, new) == [i \in DOMAIN v |-> IF v[i] = old THEN new ELSE v[i]]

----------------------------------------------------------------------------
(* Statements.  A statement names the variables it assigns (tgt), the      *)
(* object whose method it calls (recv), the variables it passes (args) and *)
(* the imported names it needs (uses); scn is the scenario it belongs to.  *)

Stmt(line, scn, fn, tgt, recv, args, uses) ==
    [line |-> line, scn |-> scn, fn |-> fn, tgt |-> tgt, recv |-> recv, args |-> args,
     uses |-> uses, cls |-> "", seeded |-> FALSE, random_state |-> 0, hyper |-> 0,
     text |-> "", old |-> 0, new |-> 0]

\* from <module> import <names>
Import(line, names) == Stmt(line, "imports", "import", names, "", <<>>, <<>>)

\* v = Cls(args, random_state=seed, ...); hyper stands for the other keywords
Construct(line, scn, v, cls, seeded, seed, hyper, args) ==
    [Stmt(line, scn, "construct", <<v>>, "", args, <<cls>>)
        EXCEPT !.cls = cls, !.seeded = seeded, !.random_state = seed, !.hyper = hyper]

\* print(text, v)
PrintStmt(line, scn, text, v) ==
    [Stmt(line, scn, "print", <<>>, "", <<v>>, <<>>) EXCEPT !.text = text]

\* v[v == old] = new
Relabel(line, scn, v, old, new) ==
    [Stmt(line, scn, "relabel", <<>>, v, <<>>, <<>>) EXCEPT !.old = old, !.new = new]

\* the calls into the libraries that compute on data
LibraryCalls ==
    {"make_classification", "load", "train_test_split", "fit_resample", "fit",
     "fit_inliers", "predict", "accuracy_score"}

----------------------------------------------------------------------------
(* Running one statement.                                                  *)

Rows(v) ==
    CASE v.t = "table" -> Len(v.rows)
      [] v.t \in {"vector", "mask"} -> Len(v.v)
      [] OTHER -> -1

Cols(v) == IF v.t = "table" THEN NCols(v.rows) ELSE 0

Shape(v) == [rows |-> Rows(v), cols |-> Cols(v)]

\* the outcome of a statement: an exception, or values for names, the state of
\* the global generator after it and the lines it printed
Outcome(exc, names, vals, rng, lines) ==
    [exc |-> exc, names |-> names, vals |-> vals, rng |-> rng, lines |-> lines]

\* the estimators an argument contributes to a composite estimator
PartsOf(v) ==
    CASE v.t = "estimator" -> <<v>>
      [] v.t = "list" -> v.items
      [] OTHER -> <<>>

\* the number a dictionary argument (class_weight=...) adds to the hyperparameters
HyperOf(v) == IF v.t = "dict" THEN Sum(v.keys) + 2 * Sum(v.vals) ELSE 0

RECURSIVE PartsOfAll(_, _)
PartsOfAll(n, args) ==
    IF args = <<>> THEN <<>> ELSE PartsOf(n[Head(args)]) \o PartsOfAll(n, Tail(args))

Apply(s, n, rng, w) ==
    CASE s.fn = "import" ->
           Outcome("", s.tgt, [k \in DOMAIN s.tgt |-> Callable(s.tgt[k])], rng, <<>>)
      [] s.fn = "make_classification" ->
           LET d == make_classification(w)
           IN  Outcome("", s.tgt, <<Table(d.X), Vector(d.y)>>, rng, <<>>)
      [] s.fn = "load" ->
           Outcome("", s.tgt,
                   << CASE s.cls = "load_digits" -> load_digits(w)
                        [] s.cls = "load_wine" -> load_wine(w)
                        [] OTHER -> load_diabetes(w) >>, rng, <<>>)
      [] s.fn = "unpack" ->
           LET b == n[s.args[1]]
           IN  Outcome("", s.tgt, <<Table(b.data), Vector(b.target)>>, rng, <<>>)
      [] s.fn = "binarize" ->
           Outcome("", s.tgt, <<Vector(binarize(n[s.args[1]].v))>>, rng, <<>>)
      [] s.fn = "train_test_split" ->
           LET r == train_test_split(n[s.args[1]].rows, n[s.args[2]].v, w.perm)
           IN  Outcome(r.exc, s.tgt, r.vals, rng, <<>>)
      [] s.fn = "construct" ->
           LET e == Estimator(s.cls, s.seeded, s.random_state, PartsOfAll(n, s.args))
               h == s.hyper + Sum([k \in DOMAIN s.args |-> HyperOf(n[s.args[k]])])
           IN  Outcome("", s.tgt, <<[e EXCEPT !.hyper = h]>>, rng, <<>>)
      [] s.fn = "base_models" ->
           Outcome("", s.tgt,
                   <<[t |-> "list",
                      items |-> << [Estimator("RandomForestClassifier", TRUE, 42, <<>>)
                                       EXCEPT !.hyper = 100],
                                   [Estimator("GradientBoostingClassifier", TRUE, 42, <<>>)
                                       EXCEPT !.hyper = 100] >>]>>, rng, <<>>)
      [] s.fn = "fit_resample" ->
           LET e == n[s.recv]
               r == fit_resample(e, n[s.args[1]].rows, n[s.args[2]].v, Draw(e, rng))
           IN  Outcome(r.exc, s.tgt, <<Table(r.X), Vector(r.y)>>,
                       IF DrawsGlobal(e) THEN rng + 1 ELSE rng, <<>>)
      [] s.fn = "fit" ->
           LET e == n[s.recv]
               r == fit(e, n[s.args[1]].rows, n[s.args[2]].v, Draw(e, rng))
           IN  Outcome(r.exc, <<s.recv>>, <<r.est>>,
                       IF DrawsGlobal(e) THEN rng + 1 ELSE rng, <<>>)
      [] s.fn = "fit_inliers" ->
           \* recv.fit(X[~mask])
           LET e == n[s.recv]
               X == n[s.args[1]].rows
               mask == n[s.args[2]].v
               r == fit_unsupervised(e, inliers(X, mask), Draw(e, rng))
           IN  IF Len(mask) # Len(X) THEN Outcome("IndexError", <<>>, <<>>, rng, <<>>)
               ELSE Outcome(r.exc, <<s.recv>>, <<r.est>>,
                            IF DrawsGlobal(e) THEN rng + 1 ELSE rng, <<>>)
      [] s.fn = "predict" ->
           LET e == n[s.recv]
               r == predict(e, n[s.args[1]].rows)
           IN  Outcome(r.exc, s.tgt \o <<s.recv>>,
                       <<Vector(r.v), [e EXCEPT !.predicts = @ + 1]>>, rng, <<>>)
      [] s.fn = "relabel" ->
           Outcome("", <<s.recv>>, <<Vector(relabel(n[s.recv].v, s.old, s.new))>>, rng, <<>>)
      [] s.fn = "accuracy_score" ->
           LET r == accuracy_score(n[s.args[1]].v, n[s.args[2]].v)
           IN  Outcome(r.exc, s.tgt, <<r.value>>, rng, <<>>)
      [] s.fn = "print" ->
           Outcome("", <<>>, <<>>, rng,
                   <<[line |-> s.line, scn |-> s.scn, text |-> s.text, value |-> n[s.args[1]]]>>)
      [] s.fn = "class_weight" ->
           \* dict(zip(np.unique(y_train), np.bincount(y_train)))
           LET y == n[s.args[1]].v
           IN  Outcome("", s.tgt, <<dict_zip(unique(y), bincount(y))>>, rng, <<>>)
      [] s.fn = "class_costs" ->
           \* {0: 1.0, 1: 10.0}
           Outcome("", s.tgt, <<Dict(<<0, 1>>, <<1, 10>>)>>, rng, <<>>)
      [] s.fn = "anomaly_mask" ->
           \* y_train == 1
           Outcome("", s.tgt, <<[t |-> "mask", v |-> anomaly_mask(n[s.args[1]].v)]>>,
                   rng, <<>>)

\* the names a statement reads
Reads(s) == Range(s.uses) \cup Range(s.args) \cup (IF s.recv = "" THEN {} ELSE {s.recv})

RECURSIVE Bind(_, _, _)
\* names[k] := vals[k] in the namespace, for every k
Bind(n, names, vals) ==
    IF names = <<>> THEN n
    ELSE Bind([n EXCEPT ![Head(names)] = Head(vals)], Tail(names), Tail(vals))

\* What the trace keeps of an executed statement: where it is, what it called
\* on which object, whether it returned (ok) or raised, the shapes of the
\* arguments it passed and of the values it returned, the names it read and
\* bound, and whether the object it called a method on was a fitted estimator.
Event(s, ok, n, args, res, binds) ==
    [line |-> s.line, fn |-> s.fn, scn |-> s.scn,
     obj |-> IF s.recv # "" THEN s.recv ELSE IF s.tgt # <<>> THEN s.tgt[1] ELSE "",
     ok |-> ok, args |-> args, res |-> res, reads |-> Reads(s), binds |-> binds,
     fitted |-> IF s.recv # "" /\ n[s.recv].t = "estimator" THEN n[s.recv].fitted ELSE FALSE]

ArgShapes(s, n) == [k \in DOMAIN s.args |-> Shape(n[s.args[k]])]

\* the cell's state after a statement that returned outcome r
Returned(s, st, r) ==
    [ns |-> Bind(st.ns, r.names, r.vals), rng |-> r.rng,
     printed |-> st.printed \o r.lines,
     trace |-> Append(st.trace,
                      Event(s, TRUE, st.ns, ArgShapes(s, st.ns),
                            [k \in DOMAIN r.vals |-> Shape(r.vals[k])], Range(r.names))),
     exc |-> ""]

\* the cell's state after a statement that raised e
Halted(s, st, e, args) ==
    [st EXCEPT !.exc = e, !.trace = Append(@, Event(s, FALSE, st.ns, args, <<>>, {}))]

\* Exec without the propagation of an exception: the statements after the one
\* that raised run as if it had been caught
ExecSwallow(s, st, fault, w) ==
    IF \E v \in Reads(s) : st.ns[v].t = "undef" THEN Halted(s, st, "NameError", <<>>)
    ELSE IF fault = s.line /\ s.fn \in LibraryCalls
      THEN Halted(s, st, "Exception", ArgShapes(s, st.ns))
    ELSE LET r == Apply(s, st.ns, st.rng, w)
         IN  IF r.exc # "" THEN Halted(s, st, r.exc, ArgShapes(s, st.ns))
             ELSE Returned(s, st, r)

\* One statement on the cell's state st = [ns, rng, printed, trace, exc].  After
\* an exception nothing runs.  A name that is not bound raises NameError; a
\* library call raises when its line is the faulty one; otherwise the call's own
\* outcome decides.  A statement that raises binds nothing.
Exec(s, st, fault, w) ==
    IF st.exc # "" THEN st
    ELSE IF \E v \in Reads(s) : st.ns[v].t = "undef" THEN Halted(s, st, "NameError", <<>>)
    ELSE IF fault = s.line /\ s.fn \in LibraryCalls
      THEN Halted(s, st, "Exception", ArgShapes(s, st.ns))
    ELSE LET r == Apply(s, st.ns, st.rng, w)
         IN  IF r.exc # "" THEN Halted(s, st, r.exc, ArgShapes(s, st.ns))
             ELSE Returned(s, st, r)

RECURSIVE RunStmts(_, _, _, _)
\* the statements of a cell, in order
RunStmts(stmts, st, fault, w) ==
    IF stmts = <<>> THEN st
    ELSE RunStmts(Tail(stmts), Exec(Head(stmts), st, fault, w), fault, w)

----------------------------------------------------------------------------
(* The code cells of src/imbalanced_learning.ipynb, statement by statement. *)

imbalanced_imports ==
    << Import(65, <<"np">>), Import(66, <<"pd">>), Import(67, <<"make_classification">>),
       Import(68, <<"train_test_split">>), Import(69, <<"DecisionTreeClassifier">>),
       Import(70, <<"RandomForestClassifier">>), Import(71, <<"accuracy_score">>),
       Import(72, <<"ClusterCentroids">>), Import(73, <<"TomekLinks">>),
       Import(74, <<"SMOTE", "ADASYN">>), Import(75, <<"SMOTEENN">>),
       Import(76, <<"OneClassSVM">>), Import(77, <<"IsolationForest">>) >>

imbalanced_data ==
    << Stmt(87, "data", "make_classification", <<"X", "y">>, "", <<>>,
            <<"make_classification">>),
       Stmt(90, "data", "train_test_split", <<"X_train", "X_test", "y_train", "y_test">>,
            "", <<"X", "y">>, <<"train_test_split">>) >>

cluster_centroids_cell ==
    << Construct(123, "cluster_centroids", "cluster_centroids", "ClusterCentroids", TRUE, 42, 0, <<>>),
       Stmt(126, "cluster_centroids", "fit_resample", <<"X_train_resampled", "y_train_resampled">>,
            "cluster_centroids", <<"X_train", "y_train">>, <<>>),
       Construct(133, "cluster_centroids", "rf_model", "RandomForestClassifier", TRUE, 42, 0, <<>>),
       Stmt(134, "cluster_centroids", "fit", <<>>, "rf_model",
            <<"X_train_resampled", "y_train_resampled">>, <<>>),
       Stmt(137, "cluster_centroids", "predict", <<"y_pred">>, "rf_model", <<"X_test">>, <<>>),
       Stmt(140, "cluster_centroids", "accuracy_score", <<"accuracy">>, "", <<"y_test", "y_pred">>,
            <<"accuracy_score">>),
       PrintStmt(141, "cluster_centroids", "Accuracy after under-sampling:", "accuracy") >>

\* the Tomek Links cell with the model fitted on the resampled table and the
\* labels of the original training set
tomek_links_cell_unpaired ==
    << Construct(166, "tomek_links", "tomek_links", "TomekLinks", FALSE, 0, 0, <<>>),
       Stmt(169, "tomek_links", "fit_resample", <<"X_train_resampled", "y_train_resampled">>,
            "tomek_links", <<"X_train", "y_train">>, <<>>),
       Construct(172, "tomek_links", "rf_model", "RandomForestClassifier", TRUE, 42, 0, <<>>),
       Stmt(173, "tomek_links", "fit", <<>>, "rf_model",
            <<"X_train_resampled", "y_train">>, <<>>),
       Stmt(176, "tomek_links", "predict", <<"y_pred">>, "rf_model", <<"X_test">>, <<>>),
       Stmt(179, "tomek_links", "accuracy_score", <<"accuracy">>, "", <<"y_test", "y_pred">>,
            <<"accuracy_score">>),
       PrintStmt(180, "tomek_links", "Accuracy after Tomek Links under-sampling:", "accuracy") >>

tomek_links_cell ==
    << Construct(166, "tomek_links", "tomek_links", "TomekLinks", FALSE, 0, 0, <<>>),
       Stmt(169, "tomek_links", "fit_resample", <<"X_train_resampled", "y_train_resampled">>,
            "tomek_links", <<"X_train", "y_train">>, <<>>),
       Construct(172, "tomek_links", "rf_model", "RandomForestClassifier", TRUE, 42, 0, <<>>),
       Stmt(173, "tomek_links", "fit", <<>>, "rf_model",
            <<"X_train_resampled", "y_train_resampled">>, <<>>),
       Stmt(176, "tomek_links", "predict", <<"y_pred">>, "rf_model", <<"X_test">>, <<>>),
       Stmt(179, "tomek_links", "accuracy_score", <<"accuracy">>, "", <<"y_test", "y_pred">>,
            <<"accuracy_score">>),
       PrintStmt(180, "tomek_links", "Accuracy after Tomek Links under-sampling:", "accuracy") >>

smote_cell ==
    << Construct(213, "smote", "smote", "SMOTE", TRUE, 42, 0, <<>>),
       Stmt(216, "smote", "fit_resample", <<"X_train_resampled", "y_train_resampled">>,
            "smote", <<"X_train", "y_train">>, <<>>),
       Construct(223, "smote", "rf_model", "RandomForestClassifier", TRUE, 42, 0, <<>>),
       Stmt(224, "smote", "fit", <<>>, "rf_model",
            <<"X_train_resampled", "y_train_resampled">>, <<>>),
       Stmt(227, "smote", "predict", <<"y_pred">>, "rf_model", <<"X_test">>, <<>>),
       Stmt(230, "smote", "accuracy_score", <<"accuracy">>, "", <<"y_test", "y_pred">>,
            <<"accuracy_score">>),
       PrintStmt(231, "smote", "Accuracy after over-sampling:", "accuracy") >>

\* the SMOTEENN cell with the resampled set assigned to X_train and y_train
smote_enn_cell_overwrites_train ==
    << Construct(271, "smote_enn", "smote_enn", "SMOTEENN", TRUE, 42, 0, <<>>),
       Stmt(274, "smote_enn", "fit_resample", <<"X_train", "y_train">>,
            "smote_enn", <<"X_train", "y_train">>, <<>>),
       Construct(281, "smote_enn", "rf_model", "RandomForestClassifier", TRUE, 42, 0, <<>>),
       Stmt(282, "smote_enn", "fit", <<>>, "rf_model",
            <<"X_train", "y_train">>, <<>>),
       Stmt(285, "smote_enn", "predict", <<"y_pred">>, "rf_model", <<"X_test">>, <<>>),
       Stmt(288, "smote_enn", "accuracy_score", <<"accuracy">>, "", <<"y_test", "y_pred">>,
            <<"accuracy_score">>),
       PrintStmt(289, "smote_enn", "Accuracy after combined resampling:", "accuracy") >>

smote_enn_cell ==
    << Construct(271, "smote_enn", "smote_enn", "SMOTEENN", TRUE, 42, 0, <<>>),
       Stmt(274, "smote_enn", "fit_resample", <<"X_train_resampled", "y_train_resampled">>,
            "smote_enn", <<"X_train", "y_train">>, <<>>),
       Construct(281, "smote_enn", "rf_model", "RandomForestClassifier", TRUE, 42, 0, <<>>),
       Stmt(282, "smote_enn", "fit", <<>>, "rf_model",
            <<"X_train_resampled", "y_train_resampled">>, <<>>),
       Stmt(285, "smote_enn", "predict", <<"y_pred">>, "rf_model", <<"X_test">>, <<>>),
       Stmt(288, "smote_enn", "accuracy_score", <<"accuracy">>, "", <<"y_test", "y_pred">>,
            <<"accuracy_score">>),
       PrintStmt(289, "smote_enn", "Accuracy after combined resampling:", "accuracy") >>

smote_adasyn_cell ==
    << Construct(330, "smote", "smote", "SMOTE", TRUE, 42, 0, <<>>),
       Construct(333, "adasyn", "adasyn", "ADASYN", TRUE, 42, 0, <<>>),
       Stmt(336, "smote", "fit_resample",
            <<"X_train_resampled_smote", "y_train_resampled_smote">>,
            "smote", <<"X_train", "y_train">>, <<>>),
       Stmt(339, "adasyn", "fit_resample",
            <<"X_train_resampled_adasyn", "y_train_resampled_adasyn">>,
            "adasyn", <<"X_train", "y_train">>, <<>>),
       Construct(350, "smote", "rf_model_smote", "RandomForestClassifier", TRUE, 42, 0, <<>>),
       Stmt(351, "smote", "fit", <<>>, "rf_model_smote",
            <<"X_train_resampled_smote", "y_train_resampled_smote">>, <<>>),
       Construct(354, "adasyn", "rf_model_adasyn", "RandomForestClassifier", TRUE, 42, 0, <<>>),
       Stmt(355, "adasyn", "fit", <<>>, "rf_model_adasyn",
            <<"X_train_resampled_adasyn", "y_train_resampled_adasyn">>, <<>>),
       Stmt(358, "smote", "predict", <<"y_pred_smote">>, "rf_model_smote", <<"X_test">>, <<>>),
       Stmt(361, "adasyn", "predict", <<"y_pred_adasyn">>, "rf_model_adasyn", <<"X_test">>,
            <<>>),
       Stmt(364, "smote", "accuracy_score", <<"accuracy_smote">>, "",
            <<"y_test", "y_pred_smote">>, <<"accuracy_score">>),
       PrintStmt(365, "smote", "Accuracy after SMOTE over-sampling:", "accuracy_smote"),
       Stmt(368, "adasyn", "accuracy_score", <<"accuracy_adasyn">>, "",
            <<"y_test", "y_pred_adasyn">>, <<"accuracy_score">>),
       PrintStmt(369, "adasyn", "Accuracy after ADASYN over-sampling:", "accuracy_adasyn") >>

\* the class weighting cell with the tree fitted on the resampled set that an
\* earlier cell left in the kernel
class_weighting_cell_on_resampled ==
    << Stmt(424, "class_weighting", "class_weight", <<"class_weight">>, "", <<"y_train">>,
            <<"np">>),
       Construct(427, "class_weighting", "dt_model", "DecisionTreeClassifier", TRUE, 42, 0,
                 <<"class_weight">>),
       Stmt(430, "class_weighting", "fit", <<>>, "dt_model",
            <<"X_train_resampled", "y_train_resampled">>, <<>>),
       Stmt(433, "class_weighting", "predict", <<"y_pred">>, "dt_model", <<"X_test">>, <<>>),
       Stmt(436, "class_weighting", "accuracy_score", <<"accuracy">>, "", <<"y_test", "y_pred">>,
            <<"accuracy_score">>),
       PrintStmt(437, "class_weighting", "Accuracy with class weighting:", "accuracy") >>

class_weighting_cell ==
    << Stmt(424, "class_weighting", "class_weight", <<"class_weight">>, "", <<"y_train">>,
            <<"np">>),
       Construct(427, "class_weighting", "dt_model", "DecisionTreeClassifier", TRUE, 42, 0,
                 <<"class_weight">>),
       Stmt(430, "class_weighting", "fit", <<>>, "dt_model", <<"X_train", "y_train">>, <<>>),
       Stmt(433, "class_weighting", "predict", <<"y_pred">>, "dt_model", <<"X_test">>, <<>>),
       Stmt(436, "class_weighting", "accuracy_score", <<"accuracy">>, "", <<"y_test", "y_pred">>,
            <<"accuracy_score">>),
       PrintStmt(437, "class_weighting", "Accuracy with class weighting:", "accuracy") >>

\* the cost-sensitive cell without the construction of its own tree: it fits
\* and predicts with the dt_model another cell left in the kernel
cost_sensitive_cell_reuses_model ==
    << Stmt(470, "cost_sensitive", "class_costs", <<"class_costs">>, "", <<>>, <<>>),
       Stmt(476, "cost_sensitive", "fit", <<>>, "dt_model", <<"X_train", "y_train">>, <<>>),
       Stmt(479, "cost_sensitive", "predict", <<"y_pred">>, "dt_model", <<"X_test">>, <<>>),
       Stmt(482, "cost_sensitive", "accuracy_score", <<"accuracy">>, "", <<"y_test", "y_pred">>,
            <<"accuracy_score">>),
       PrintStmt(483, "cost_sensitive", "Accuracy with cost-sensitive learning:", "accuracy") >>

cost_sensitive_cell ==
    << Stmt(470, "cost_sensitive", "class_costs", <<"class_costs">>, "", <<>>, <<>>),
       Construct(473, "cost_sensitive", "dt_model", "DecisionTreeClassifier", TRUE, 42, 0,
                 <<"class_costs">>),
       Stmt(476, "cost_sensitive", "fit", <<>>, "dt_model", <<"X_train", "y_train">>, <<>>),
       Stmt(479, "cost_sensitive", "predict", <<"y_pred">>, "dt_model", <<"X_test">>, <<>>),
       Stmt(482, "cost_sensitive", "accuracy_score", <<"accuracy">>, "", <<"y_test", "y_pred">>,
            <<"accuracy_score">>),
       PrintStmt(483, "cost_sensitive", "Accuracy with cost-sensitive learning:", "accuracy") >>

\* the One-Class SVM cell with the two relabelling assignments in the other order
one_class_svm_cell_outliers_first ==
    << Stmt(523, "one_class_svm", "anomaly_mask", <<"anomaly_mask">>, "", <<"y_train">>, <<>>),
       Construct(526, "one_class_svm", "svm_model", "OneClassSVM", FALSE, 0, 0, <<>>),
       Stmt(529, "one_class_svm", "fit_inliers", <<>>, "svm_model", <<"X_train", "anomaly_mask">>, <<>>),
       Stmt(532, "one_class_svm", "predict", <<"y_pred">>, "svm_model", <<"X_test">>, <<>>),
       Relabel(535, "one_class_svm", "y_pred", -1, 1),
       Relabel(536, "one_class_svm", "y_pred", 1, 0),
       Stmt(539, "one_class_svm", "accuracy_score", <<"accuracy">>, "", <<"y_test", "y_pred">>,
            <<"accuracy_score">>),
       PrintStmt(540, "one_class_svm", "Accuracy with anomaly detection:", "accuracy") >>

one_class_svm_cell ==
    << Stmt(523, "one_class_svm", "anomaly_mask", <<"anomaly_mask">>, "", <<"y_train">>, <<>>),
       Construct(526, "one_class_svm", "svm_model", "OneClassSVM", FALSE, 0, 0, <<>>),
       Stmt(529, "one_class_svm", "fit_inliers", <<>>, "svm_model", <<"X_train", "anomaly_mask">>, <<>>),
       Stmt(532, "one_class_svm", "predict", <<"y_pred">>, "svm_model", <<"X_test">>, <<>>),
       Relabel(535, "one_class_svm", "y_pred", 1, 0),
       Relabel(536, "one_class_svm", "y_pred", -1, 1),
       Stmt(539, "one_class_svm", "accuracy_score", <<"accuracy">>, "", <<"y_test", "y_pred">>,
            <<"accuracy_score">>),
       PrintStmt(540, "one_class_svm", "Accuracy with anomaly detection:", "accuracy") >>

isolation_forest_cell ==
    << Stmt(565, "isolation_forest", "anomaly_mask", <<"anomaly_mask">>, "", <<"y_train">>,
            <<>>),
       Construct(568, "isolation_forest", "if_model", "IsolationForest", FALSE, 0, 0, <<>>),
       Stmt(571, "isolation_forest", "fit_inliers", <<>>, "if_model", <<"X_train", "anomaly_mask">>, <<>>),
       Stmt(574, "isolation_forest", "predict", <<"y_pred">>, "if_model", <<"X_test">>, <<>>),
       Relabel(577, "isolation_forest", "y_pred", 1, 0),
       Relabel(578, "isolation_forest", "y_pred", -1, 1),
       Stmt(581, "isolation_forest", "accuracy_score", <<"accuracy">>, "", <<"y_test", "y_pred">>,
            <<"accuracy_score">>),
       PrintStmt(582, "isolation_forest", "Accuracy with Isolation Forest:", "accuracy") >>

----------------------------------------------------------------------------
(* The code cells of src/ensemble_learning.ipynb.                          *)

ensemble_imports ==
    << Import(62, <<"pd">>), Import(63, <<"load_digits">>), Import(64, <<"load_wine">>),
       Import(65, <<"load_diabetes">>), Import(66, <<"make_classification">>),
       Import(67, <<"train_test_split">>), Import(68, <<"accuracy_score">>),
       Import(69, <<"DecisionTreeClassifier">>), Import(70, <<"BaggingClassifier">>),
       Import(71, <<"AdaBoostClassifier">>),
       Import(72, <<"RandomForestClassifier", "GradientBoostingClassifier">>),
       Import(73, <<"LogisticRegression">>), Import(74, <<"StackingClassifier">>) >>

\* the bagging cell without its own train_test_split: it fits and scores on the
\* split an earlier cell left in the kernel
bagging_cell_without_split ==
    << [Stmt(99, "bagging", "load", <<"digits">>, "", <<>>, <<"load_digits">>) EXCEPT !.cls = "load_digits"],
       Stmt(100, "bagging", "unpack", <<"X", "y">>, "", <<"digits">>, <<>>),
       Construct(106, "bagging", "base_model", "DecisionTreeClassifier", TRUE, 42, 0, <<>>),
       Construct(109, "bagging", "bagging_model", "BaggingClassifier", TRUE, 42, 20,
                 <<"base_model">>),
       Stmt(112, "bagging", "fit", <<>>, "bagging_model", <<"X_train", "y_train">>, <<>>),
       Stmt(115, "bagging", "predict", <<"y_pred">>, "bagging_model", <<"X_test">>, <<>>),
       Stmt(118, "bagging", "accuracy_score", <<"accuracy">>, "", <<"y_test", "y_pred">>,
            <<"accuracy_score">>),
       PrintStmt(119, "bagging", "Bagging Accuracy:", "accuracy") >>

bagging_cell ==
    << [Stmt(99, "bagging", "load", <<"digits">>, "", <<>>, <<"load_digits">>) EXCEPT !.cls = "load_digits"],
       Stmt(100, "bagging", "unpack", <<"X", "y">>, "", <<"digits">>, <<>>),
       Stmt(103, "bagging", "train_test_split", <<"X_train", "X_test", "y_train", "y_test">>,
            "", <<"X", "y">>, <<"train_test_split">>),
       Construct(106, "bagging", "base_model", "DecisionTreeClassifier", TRUE, 42, 0, <<>>),
       Construct(109, "bagging", "bagging_model", "BaggingClassifier", TRUE, 42, 20,
                 <<"base_model">>),
       Stmt(112, "bagging", "fit", <<>>, "bagging_model", <<"X_train", "y_train">>, <<>>),
       Stmt(115, "bagging", "predict", <<"y_pred">>, "bagging_model", <<"X_test">>, <<>>),
       Stmt(118, "bagging", "accuracy_score", <<"accuracy">>, "", <<"y_test", "y_pred">>,
            <<"accuracy_score">>),
       PrintStmt(119, "bagging", "Bagging Accuracy:", "accuracy") >>

\* the AdaBoost cell with predict written before fit
adaboost_cell_predict_first ==
    << [Stmt(164, "adaboost", "load", <<"wine">>, "", <<>>, <<"load_wine">>) EXCEPT !.cls = "load_wine"],
       Stmt(165, "adaboost", "unpack", <<"X", "y">>, "", <<"wine">>, <<>>),
       Stmt(168, "adaboost", "train_test_split", <<"X_train", "X_test", "y_train", "y_test">>,
            "", <<"X", "y">>, <<"train_test_split">>),
       Construct(171, "adaboost", "base_model", "DecisionTreeClassifier", TRUE, 42, 1, <<>>),
       Construct(174, "adaboost", "adaboost_model", "AdaBoostClassifier", TRUE, 42, 100,
                 <<"base_model">>),
       Stmt(180, "adaboost", "predict", <<"y_pred">>, "adaboost_model", <<"X_test">>, <<>>),
       Stmt(177, "adaboost", "fit", <<>>, "adaboost_model", <<"X_train", "y_train">>, <<>>),
       Stmt(183, "adaboost", "accuracy_score", <<"accuracy">>, "", <<"y_test", "y_pred">>,
            <<"accuracy_score">>),
       PrintStmt(184, "adaboost", "AdaBoost Accuracy:", "accuracy") >>

adaboost_cell ==
    << [Stmt(164, "adaboost", "load", <<"wine">>, "", <<>>, <<"load_wine">>) EXCEPT !.cls = "load_wine"],
       Stmt(165, "adaboost", "unpack", <<"X", "y">>, "", <<"wine">>, <<>>),
       Stmt(168, "adaboost", "train_test_split", <<"X_train", "X_test", "y_train", "y_test">>,
            "", <<"X", "y">>, <<"train_test_split">>),
       Construct(171, "adaboost", "base_model", "DecisionTreeClassifier", TRUE, 42, 1, <<>>),
       Construct(174, "adaboost", "adaboost_model", "AdaBoostClassifier", TRUE, 42, 100,
                 <<"base_model">>),
       Stmt(177, "adaboost", "fit", <<>>, "adaboost_model", <<"X_train", "y_train">>, <<>>),
       Stmt(180, "adaboost", "predict", <<"y_pred">>, "adaboost_model", <<"X_test">>, <<>>),
       Stmt(183, "adaboost", "accuracy_score", <<"accuracy">>, "", <<"y_test", "y_pred">>,
            <<"accuracy_score">>),
       PrintStmt(184, "adaboost", "AdaBoost Accuracy:", "accuracy") >>

stacking_cell ==
    << [Stmt(226, "stacking", "load", <<"diabetes">>, "", <<>>, <<"load_diabetes">>) EXCEPT !.cls = "load_diabetes"],
       Stmt(227, "stacking", "unpack", <<"X", "y">>, "", <<"diabetes">>, <<>>),
       Stmt(230, "stacking", "binarize", <<"y_binary">>, "", <<"y">>, <<>>),
       Stmt(233, "stacking", "train_test_split", <<"X_train", "X_test", "y_train", "y_test">>,
            "", <<"X", "y_binary">>, <<"train_test_split">>),
       Stmt(236, "stacking", "base_models", <<"base_models">>, "", <<>>,
            <<"RandomForestClassifier", "GradientBoostingClassifier">>),
       Construct(242, "stacking", "meta_model", "LogisticRegression", FALSE, 0, 0, <<>>),
       Construct(245, "stacking", "stacking_model", "StackingClassifier", FALSE, 0, 0,
                 <<"base_models", "meta_model">>),
       Stmt(248, "stacking", "fit", <<>>, "stacking_model", <<"X_train", "y_train">>, <<>>),
       Stmt(251, "stacking", "predict", <<"y_pred">>, "stacking_model", <<"X_test">>, <<>>),
       Stmt(254, "stacking", "accuracy_score", <<"accuracy">>, "", <<"y_test", "y_pred">>,
            <<"accuracy_score">>),
       PrintStmt(255, "stacking", "Stacking Accuracy:", "accuracy") >>

----------------------------------------------------------------------------
(* The notebooks.                                                          *)

Notebooks == {"imbalanced_learning", "ensemble_learning"}

ImbalancedCells ==
    {"imbalanced_imports", "imbalanced_data", "cluster_centroids", "tomek_links", "smote",
     "smote_enn", "smote_adasyn", "class_weighting", "cost_sensitive", "one_class_svm",
     "isolation_forest"}

EnsembleCells == {"ensemble_imports", "bagging", "adaboost", "stacking"}

Cells == ImbalancedCells \cup EnsembleCells

CellsOf(nb) == IF nb = "imbalanced_learning" THEN ImbalancedCells ELSE EnsembleCells

Source(c) ==
    CASE c = "imbalanced_imports" -> imbalanced_imports
      [] c = "imbalanced_data" -> imbalanced_data
      [] c = "cluster_centroids" -> cluster_centroids_cell
      [] c = "tomek_links" -> tomek_links_cell
      [] c = "smote" -> smote_cell
      [] c = "smote_enn" -> smote_enn_cell
      [] c = "smote_adasyn" -> smote_adasyn_cell
      [] c = "class_weighting" -> class_weighting_cell
      [] c = "cost_sensitive" -> cost_sensitive_cell
      [] c = "one_class_svm" -> one_class_svm_cell
      [] c = "isolation_forest" -> isolation_forest_cell
      [] c = "ensemble_imports" -> ensemble_imports
      [] c = "bagging" -> bagging_cell
      [] c = "adaboost" -> adaboost_cell
      [] c = "stacking" -> stacking_cell

\* every name a cell of either notebook binds
Names == UNION {UNION {Range(Source(c)[k].tgt) : k \in DOMAIN Source(c)} : c \in Cells}

\* the lines of a cell where a library call can raise
FaultLines(c) == {Source(c)[k].line : k \in {k \in DOMAIN Source(c) : Source(c)[k].fn \in LibraryCalls}}

----------------------------------------------------------------------------
(* The kernel.                                                             *)

NoOutput == <<>>

Init ==
    /\ notebook \in Notebooks
    /\ world \in Worlds
    /\ ns = [v \in Names |-> Undef]
    /\ out = [c \in Cells |-> NoOutput]
    /\ trace = <<>>
    /\ run = [cell |-> "", exc |-> ""]
    /\ np_random = 0
    /\ nruns = 0
    /\ nfaults = 0
    /\ fin = <<>>
    /\ fout = <<>>

\* the cells that make an estimator which draws from the global generator
DrawingCells ==
    {c \in Cells : \E k \in DOMAIN Source(c) :
        /\ Source(c)[k].fn = "construct"
        /\ Source(c)[k].cls \in RandomClasses
        /\ ~Source(c)[k].seeded}

\* Run cell c to its end or to the statement that raises.  fault is the line of
\* a library call that raises for a reason outside the data (0: none does);
\* seed is what the operating system hands the global generator, which is
\* seeded when the first cell that draws from it runs.
RunCell(c, fault, seed) ==
    /\ notebook \in Notebooks
    /\ c \in CellsOf(notebook)
    /\ nruns < MaxRuns
    /\ fault # 0 => nfaults < MaxFaults
    /\ \E st \in {RunStmts(Source(c),
                           [ns |-> ns, rng |-> IF np_random = 0 THEN seed ELSE np_random,
                            printed |-> <<>>, trace |-> <<>>, exc |-> ""],
                           fault, world)} :
           /\ fault # 0 => st.exc = "Exception"
           /\ ns' = st.ns
           /\ np_random' = st.rng
           /\ out' = [out EXCEPT ![c] = st.printed]
           /\ trace' = st.trace
           /\ run' = [cell |-> c, exc |-> st.exc]
    /\ nruns' = nruns + 1
    /\ nfaults' = nfaults + (IF fault # 0 THEN 1 ELSE 0)
    /\ UNCHANGED <<notebook, world, fin, fout>>

RunAnyCell ==
    \E c \in Cells :
        \E fault \in {0} \cup FaultLines(c) :
            \E seed \in (IF c \in DrawingCells /\ np_random = 0 THEN Entropy ELSE {0}) :
                RunCell(c, fault, seed)

Next == RunAnyCell

Spec == Init /\ [][Next]_vars

----------------------------------------------------------------------------
(* train_test_split and accuracy_score on their own: a table of n rows, any *)
(* permutation the seeded generator may draw, and after the split any       *)
(* prediction vector as long as y_test.                                     *)

RECURSIVE Perms(_)
\* the permutations of a finite set, as sequences
Perms(S) ==
    IF S = {} THEN {<<>>}
    ELSE UNION {{<<x>> \o q : q \in Perms(S \ {x})} : x \in S}

\* row i of the table holds only its own index; the labels cycle through the classes
IndexTable(n) == [i \in 1..n |-> <<i>>]
CycleLabels(n) == [i \in 1..n |-> i % (MaxLabel + 1)]

NoKernel ==
    /\ notebook = ""
    /\ world = [minority |-> 0, perm |-> <<>>]
    /\ ns = [v \in Names |-> Undef]
    /\ out = [c \in Cells |-> NoOutput]
    /\ trace = <<>>
    /\ run = [cell |-> "", exc |-> ""]
    /\ np_random = 0
    /\ nruns = 0
    /\ nfaults = 0

InitSplit ==
    /\ NoKernel
    /\ fin \in UNION {{[n |-> n, perm |-> q] : q \in Perms(1..n)} : n \in 1..MaxSplit}
    /\ fout = [stage |-> "input"]

SplitStep ==
    /\ fout.stage = "input"
    /\ fout' = [stage |-> "split",
                r |-> train_test_split(IndexTable(fin.n), CycleLabels(fin.n), fin.perm)]
    /\ UNCHANGED <<notebook, world, ns, out, trace, run, np_random, nruns, nfaults, fin>>

ScoreStep ==
    /\ fout.stage = "split"
    /\ fout.r.exc = ""
    /\ LET y_test == fout.r.vals[4].v
       IN  \E y_pred \in [DOMAIN y_test -> 0..MaxLabel] :
               fout' = [stage |-> "score", y_test |-> y_test, y_pred |-> y_pred,
                        r |-> accuracy_score(y_test, y_pred)]
    /\ UNCHANGED <<notebook, world, ns, out, trace, run, np_random, nruns, nfaults, fin>>

NextSplit == SplitStep \/ ScoreStep

SpecSplit == InitSplit /\ [][NextSplit]_vars

----------------------------------------------------------------------------
(* The class_weight expression on its own, for any vector of labels.       *)

InitWeights ==
    /\ NoKernel
    /\ fin \in UNION {[1..n -> 0..MaxLabel] : n \in 1..MaxLen}
    /\ fout = [stage |-> "input"]

\* class_weight = dict(zip(np.unique(y_train), np.bincount(y_train)))
WeighStep ==
    /\ fout.stage = "input"
    /\ fout' = [stage |-> "class_weight", d |-> dict_zip(unique(fin), bincount(fin))]
    /\ UNCHANGED <<notebook, world, ns, out, trace, run, np_random, nruns, nfaults, fin>>

NextWeights == WeighStep

SpecWeights == InitWeights /\ [][NextWeights]_vars

----------------------------------------------------------------------------
(* The relabelling of the anomaly cells on its own: any vector of detector *)
(* predictions (+1 inlier, -1 outlier), then the relabelling statements of *)
(* the cell, one at a time.                                                *)

AnomalyCells == {"one_class_svm", "isolation_forest"}

\* the in-place assignments y_pred[y_pred == old] = new of a cell, in its order
RelabelStmts(c) == SelectSeq(Source(c), LAMBDA s : s.fn = "relabel")

InitRelabel ==
    /\ NoKernel
    /\ fin \in [cell : AnomalyCells, y_pred : UNION {[1..n -> {1, -1}] : n \in 1..MaxLen}]
    /\ fout = [stage |-> 0, y_pred |-> fin.y_pred, writes |-> [i \in DOMAIN fin.y_pred |-> 0]]

\* the next assignment: the entries selected by the mask y_pred == old are
\* written, the others are left
RelabelStep ==
    /\ fout.stage < Len(RelabelStmts(fin.cell))
    /\ LET s == RelabelStmts(fin.cell)[fout.stage + 1]
       IN  fout' = [stage |-> fout.stage + 1,
                    y_pred |-> relabel(fout.y_pred, s.old, s.new),
                    writes |-> [i \in DOMAIN fout.y_pred |->
                                   fout.writes[i] + (IF fout.y_pred[i] = s.old THEN 1 ELSE 0)]]
    /\ UNCHANGED <<notebook, world, ns, out, trace, run, np_random, nruns, nfaults, fin>>

NextRelabel == RelabelStep

SpecRelabel == InitRelabel /\ [][NextRelabel]_vars

----------------------------------------------------------------------------
(* The training table of the anomaly detectors on its own: any vector of   *)
(* training labels, the mask of line 523 / 565 and the selection of line   *)
(* 529 / 571 on a table whose row i holds i.                               *)

InitInliers ==
    /\ NoKernel
    /\ fin \in UNION {[1..n -> 0..MaxLabel] : n \in 1..MaxLen}
    /\ fout = [stage |-> "input"]

\* anomaly_mask = y_train == 1
MaskStep ==
    /\ fout.stage = "input"
    /\ fout' = [stage |-> "mask", mask |-> anomaly_mask(fin)]
    /\ UNCHANGED <<notebook, world, ns, out, trace, run, np_random, nruns, nfaults, fin>>

\* model.fit(X_train[~anomaly_mask])
SelectStep ==
    /\ fout.stage = "mask"
    /\ fout' = [stage |-> "fit", mask |-> fout.mask,
                X |-> inliers(IndexTable(Len(fin)), fout.mask)]
    /\ UNCHANGED <<notebook, world, ns, out, trace, run, np_random, nruns, nfaults, fin>>

NextInliers == MaskStep \/ SelectStep

SpecInliers == InitInliers /\ [][NextInliers]_vars

----------------------------------------------------------------------------
(* Properties.                                                             *)

\* two accuracy values are the same fraction
SameValue(a, b) == a.num * b.den = b.num * a.den

\* the last run was of cell c and reached its end
Completed(c) == run.cell = c /\ run.exc = ""

\* the events of the last run that got as far as calling fn with its arguments
Called(fns) ==
    {k \in DOMAIN trace : trace[k].fn \in fns /\ (trace[k].ok \/ trace[k].args # <<>>)}

ResampledTables ==
    {"X_train_resampled", "X_train_resampled_smote", "X_train_resampled_adasyn"}
ResampledLabels ==
    {"y_train_resampled", "y_train_resampled_smote", "y_train_resampled_adasyn"}

\* C1 (as claimed): running a cell again prints, line for line, the accuracy its
\* previous run printed -- for every cell of both notebooks, the Isolation
\* Forest cell included.
C1_RerunPrintsSameAccuracy ==
    [][\A c \in Cells : \A i \in DOMAIN out[c] : \A j \in DOMAIN out'[c] :
          out[c][i].line = out'[c][j].line => SameValue(out[c][i].value, out'[c][j].value)]_vars

\* the same for every cell but the one that builds IsolationForest()
SeededRerunPrintsSameAccuracy ==
    [][\A c \in Cells \ DrawingCells : \A i \in DOMAIN out[c] : \A j \in DOMAIN out'[c] :
          out[c][i].line = out'[c][j].line => SameValue(out[c][i].value, out'[c][j].value)]_vars

\* C2: every fit_resample that returns gives a table with as many columns as the
\* table it was given; the resampled tables held by the kernel have the columns
\* of X_train and of X_test; and no predict raises on the shape of X_test (the
\* only predict that fails is one hit by an outside fault).
C2_ResamplingKeepsColumns ==
    /\ \A k \in DOMAIN trace :
          trace[k].fn = "fit_resample" /\ trace[k].ok
             => /\ trace[k].res[1].cols = trace[k].args[1].cols
                /\ trace[k].res[1].cols = NFeatures
    /\ \A v \in ResampledTables :
          ns[v].t = "table"
             => /\ Rectangular(ns[v].rows)
                /\ Cols(ns[v]) = Cols(ns["X_train"])
                /\ Cols(ns[v]) = Cols(ns["X_test"])
    /\ \A k \in DOMAIN trace :
          trace[k].fn = "predict" /\ ~trace[k].ok /\ trace[k].args # <<>>
             => run.exc = "Exception"

\* C2 witness: a resampling cell ran to its end, its resampler changed the number
\* of rows, and the model fitted on the resampled table predicted on X_test.
C2_Witness ==
    /\ Completed("smote_enn")
    /\ \E k \in DOMAIN trace :
          /\ trace[k].fn = "fit_resample" /\ trace[k].ok
          /\ trace[k].res[1].rows # trace[k].args[1].rows
    /\ \E k \in DOMAIN trace : trace[k].fn = "predict" /\ trace[k].ok

\* the accuracy printed by the cells is a fraction between 0 and 1
PrintedAccuracyInUnitInterval ==
    \A c \in Cells : \A i \in DOMAIN out[c] :
        /\ out[c][i].value.den > 0
        /\ 0 <= out[c][i].value.num
        /\ out[c][i].value.num <= out[c][i].value.den

\* C3: for every prediction vector as long as y_test, accuracy_score returns
\* correct / total, where total is the number of test rows and is positive and
\* correct is the number of rows predicted right, so the value is in [0, 1].
C3_AccuracyIsShareOfCorrectRows ==
    fout.stage = "score"
       => LET right == Sum([i \in DOMAIN fout.y_test |->
                               IF fout.y_pred[i] = fout.y_test[i] THEN 1 ELSE 0])
              wrong == Cardinality({i \in DOMAIN fout.y_test : fout.y_pred[i] # fout.y_test[i]})
          IN  /\ fout.r.exc = ""
              /\ fout.r.value.den = Len(fout.y_test)
              /\ fout.r.value.den > 0
              /\ fout.r.value.num = right
              /\ fout.r.value.num + wrong = fout.r.value.den
              /\ 0 <= fout.r.value.num
              /\ fout.r.value.num <= fout.r.value.den

\* C3 witness: two test rows, one predicted right and one predicted wrong.
C3_Witness ==
    /\ fout.stage = "score"
    /\ Len(fout.y_test) = 2
    /\ fout.y_pred[1] = fout.y_test[1]
    /\ fout.y_pred[2] # fout.y_test[2]
    /\ fout.r.value = Scalar(1, 2)

\* C4: a split that returns puts every row of the table in exactly one of train
\* and test, the test part has ceil(0.2 * n) rows and the train part the other
\* n - ceil(0.2 * n), and each label stays with its row.
C4_SplitIsPartition ==
    fout.stage = "split" /\ fout.r.exc = ""
       => LET X_train == fout.r.vals[1].rows
              X_test == fout.r.vals[2].rows
              y_train == fout.r.vals[3].v
              y_test == fout.r.vals[4].v
              train == {X_train[k][1] : k \in DOMAIN X_train}
              test == {X_test[k][1] : k \in DOMAIN X_test}
          IN  /\ train \cap test = {}
              /\ train \cup test = 1..fin.n
              /\ Cardinality(train) = Len(X_train)
              /\ Cardinality(test) = Len(X_test)
              /\ TestSizeDen * Len(X_test) >= TestSizeNum * fin.n
              /\ TestSizeDen * (Len(X_test) - 1) < TestSizeNum * fin.n
              /\ Len(X_train) = fin.n - Len(X_test)
              /\ Len(y_train) = Len(X_train)
              /\ Len(y_test) = Len(X_test)
              /\ \A k \in DOMAIN X_train : y_train[k] = CycleLabels(fin.n)[X_train[k][1]]
              /\ \A k \in DOMAIN X_test : y_test[k] = CycleLabels(fin.n)[X_test[k][1]]

\* C4 witness: six rows split, in an order that is not the table's, into two
\* test rows and four train rows.
C4_Witness ==
    /\ fout.stage = "split"
    /\ fout.r.exc = ""
    /\ fin.n = 6
    /\ fin.perm # [i \in 1..6 |-> i]
    /\ Len(fout.r.vals[2].rows) = 2
    /\ Len(fout.r.vals[1].rows) = 4

\* C5: in every cell run, a table and a label vector (or two label vectors)
\* that reach fit, fit_resample, accuracy_score or train_test_split together have
\* the same, positive number of rows, and so have the pair a resampler returns
\* and the pairs a split returns.
C5_PairedRowCounts ==
    \A k \in DOMAIN trace :
        LET e == trace[k]
        IN  /\ e.fn \in {"fit", "fit_resample", "accuracy_score", "train_test_split"}
                 /\ Len(e.args) = 2
                 => /\ e.args[1].rows = e.args[2].rows
                    /\ e.args[1].rows > 0
            /\ e.fn = "fit_resample" /\ e.ok => e.res[1].rows = e.res[2].rows
            /\ e.fn = "train_test_split" /\ e.ok
                 => /\ e.res[1].rows = e.res[3].rows
                    /\ e.res[2].rows = e.res[4].rows

\* C5 witness: the SMOTEENN cell ran to its end; its model was fitted on a
\* resampled pair with another number of rows than X_train, and y_test and
\* y_pred were scored.
C5_Witness ==
    /\ Completed("smote_enn")
    /\ \E k \in DOMAIN trace :
          /\ trace[k].fn = "fit" /\ trace[k].ok
          /\ trace[k].args[1].rows # Rows(ns["X_train"])
          /\ trace[k].args[1].rows = Rows(ns["y_train_resampled"])
    /\ \E k \in DOMAIN trace : trace[k].fn = "accuracy_score" /\ trace[k].ok

\* C6 (as claimed): whenever a cell starts, no resampled table or label vector
\* is held in the kernel.
C6_ResampledSetIsGone ==
    [][\A v \in ResampledTables \cup ResampledLabels : ns[v].t = "undef"]_vars

\* C6 (amended): a resampled table or label vector stays bound once a cell has
\* bound it, and a cell reads one only after it has itself bound it in the same
\* run.
C6_ResampledSetReadOnlyByItsCell ==
    [][/\ \A v \in ResampledTables \cup ResampledLabels :
             ns[v].t # "undef" => ns'[v].t # "undef"
       /\ \A k \in DOMAIN trace' :
             \A v \in trace'[k].reads \cap (ResampledTables \cup ResampledLabels) :
                 \E j \in 1..(k - 1) : trace'[j].ok /\ v \in trace'[j].binds]_vars

\* C6 witness: a cell that resamples nothing ran to its end while the kernel held
\* the resampled set of an earlier cell.
C6_Witness ==
    /\ Completed("class_weighting")
    /\ ns["X_train_resampled"].t = "table"
    /\ ns["y_train_resampled"].t = "vector"

\* C7 (as claimed): when class 1 has fewer training rows than class 0, the
\* class_weight dictionary gives class 1 the higher weight.
C7_MinorityWeighsMore ==
    /\ ns["class_weight"].t = "dict"
    /\ ns["y_train"].t = "vector"
    /\ 0 < Count(ns["y_train"].v, 1)
    /\ Count(ns["y_train"].v, 1) < Count(ns["y_train"].v, 0)
    => DictGet(ns["class_weight"], 1) > DictGet(ns["class_weight"], 0)

\* C8 (as claimed): class_weight maps every label that occurs in y_train to the
\* number of rows that carry it.
C8_EachLabelMapsToItsCount ==
    fout.stage = "class_weight"
       => \A c \in Range(fin) :
             /\ c \in DictKeys(fout.d)
             /\ DictGet(fout.d, c) = Count(fin, c)

\* C8 (amended): the keys of class_weight are the labels that occur in y_train,
\* and the i-th smallest of them (counting from 0) is mapped to the number of
\* rows labelled i, which is its own number of rows when the labels that occur
\* are 0..k-1.
C8_LabelsPairedWithBinsByPosition ==
    fout.stage = "class_weight"
       => LET u == SortSet(Range(fin))
          IN  /\ DictKeys(fout.d) = Range(fin)
              /\ \A i \in DOMAIN u : DictGet(fout.d, u[i]) = Count(fin, i - 1)
              /\ Range(fin) = 0..(Len(u) - 1)
                    => \A c \in Range(fin) : DictGet(fout.d, c) = Count(fin, c)

\* C8 witness: labels 0 and 2 occur and label 1 does not; label 2 is mapped to
\* the number of rows labelled 1, which is none.
C8_Witness ==
    /\ fout.stage = "class_weight"
    /\ Range(fin) = {0, 2}
    /\ DictGet(fout.d, 0) = Count(fin, 0)
    /\ DictGet(fout.d, 2) = 0

\* C9: in a cell run only the last executed statement can have raised; the
\* executed statements are the first statements of the cell, each once and in
\* the cell's order; when one raised the run is marked failed, the cell's output
\* holds the lines printed before it and no line of the scenario whose call
\* raised.
C9_CellHaltsAtFirstException ==
    run.cell # ""
       => LET src == Source(run.cell)
              last == Len(trace)
          IN  /\ last <= Len(src)
              /\ \A k \in DOMAIN trace : trace[k].line = src[k].line /\ trace[k].fn = src[k].fn
              /\ \A k \in 1..(last - 1) : trace[k].ok
              /\ run.exc = "" <=> (last = Len(src) /\ \A k \in DOMAIN trace : trace[k].ok)
              /\ run.exc # "" => /\ last >= 1
                                 /\ ~trace[last].ok
                                 /\ trace[last].binds = {}
                                 /\ \A i \in DOMAIN out[run.cell] :
                                       out[run.cell][i].scn # trace[last].scn
              /\ Len(out[run.cell]) =
                    Cardinality({k \in DOMAIN trace : trace[k].fn = "print" /\ trace[k].ok})
              /\ \A i \in DOMAIN out[run.cell] :
                    \E k \in DOMAIN trace : /\ trace[k].fn = "print" /\ trace[k].ok
                                            /\ trace[k].line = out[run.cell][i].line

\* C9 witness: predict raised in the Tomek Links cell after fit_resample and fit
\* had returned; nothing was printed.
C9_Witness ==
    /\ run.cell = "tomek_links"
    /\ run.exc = "Exception"
    /\ Len(trace) = 5
    /\ trace[Len(trace)].fn = "predict"
    /\ ~trace[Len(trace)].ok
    /\ trace[4].fn = "fit" /\ trace[4].ok
    /\ out["tomek_links"] = <<>>

\* the place of a call in the pattern of a scenario (0: not a step of it)
StepRank(fn) ==
    CASE fn \in {"make_classification", "load", "unpack", "binarize"} -> 1
      [] fn = "train_test_split" -> 2
      [] fn = "fit_resample" -> 4
      [] fn \in {"fit", "fit_inliers"} -> 5
      [] fn \in {"predict", "relabel"} -> 6
      [] fn = "accuracy_score" -> 7
      [] fn = "print" -> 8
      [] OTHER -> 0

\* the steps of each scenario of the last run came in the order of the pattern,
\* no estimator was built before the data of its scenario was split, and every
\* method was called on an estimator built earlier in the run
StepsInOrder ==
    /\ \A j, k \in DOMAIN trace :
          j < k /\ trace[j].scn = trace[k].scn
             => /\ StepRank(trace[j].fn) > 0 /\ StepRank(trace[k].fn) > 0
                     => StepRank(trace[j].fn) <= StepRank(trace[k].fn)
                /\ trace[j].fn = "construct" => StepRank(trace[k].fn) \notin {1, 2}
    /\ \A k \in DOMAIN trace :
          trace[k].fn \in {"fit_resample", "fit", "fit_inliers", "predict"} /\ trace[k].args # <<>>
             => \E j \in 1..(k - 1) :
                   trace[j].fn = "construct" /\ trace[j].ok /\ trace[j].obj = trace[k].obj

\* every predict that was called was called on a fitted estimator, fitted
\* earlier in the same run
PredictOnlyOnFitted ==
    /\ run.exc # "NotFittedError"
    /\ \A k \in DOMAIN trace :
          trace[k].fn = "predict" /\ trace[k].args # <<>>
             => /\ trace[k].fitted
                /\ \E j \in 1..(k - 1) :
                      /\ trace[j].fn \in {"fit", "fit_inliers"}
                      /\ trace[j].ok
                      /\ trace[j].obj = trace[k].obj

\* the estimators fitted in the last run, and the lines printed for a scenario
FitEvents == {k \in DOMAIN trace : trace[k].fn \in {"fit", "fit_inliers"} /\ trace[k].ok}
PrintsOf(scn) == {p \in DOMAIN trace : trace[p].fn = "print" /\ trace[p].ok /\ trace[p].scn = scn}

\* a line printed for the scenario of the estimator fitted at k comes after that
\* estimator's prediction and the scoring of it
PrintedAfterPrediction(k) ==
    \A p \in PrintsOf(trace[k].scn) :
        \E q \in (k + 1)..(p - 1) :
            /\ trace[q].fn = "predict" /\ trace[q].ok /\ trace[q].obj = trace[k].obj
            /\ \E a \in (q + 1)..(p - 1) :
                  /\ trace[a].fn = "accuracy_score" /\ trace[a].ok
                  /\ trace[a].scn = trace[k].scn

\* C10 (as claimed): the steps run in the order of the pattern, predict is called
\* on fitted estimators only, and for every estimator fitted in a run exactly one
\* accuracy line is printed, after its prediction.
C10_FittedEstimatorPrintedExactlyOnce ==
    /\ StepsInOrder
    /\ PredictOnlyOnFitted
    /\ \A k \in FitEvents :
          /\ Cardinality(PrintsOf(trace[k].scn)) = 1
          /\ PrintedAfterPrediction(k)

\* C10 (amended): the steps run in the order of the pattern, predict is called on
\* fitted estimators only, and for every estimator fitted in a run at most one
\* accuracy line is printed, after its prediction: exactly one when the cell ran
\* to its end, none when a call of its scenario raised and halted the cell.
C10_FittedEstimatorPrintedOnceIfCellCompletes ==
    /\ StepsInOrder
    /\ PredictOnlyOnFitted
    /\ \A k \in FitEvents :
          /\ Cardinality(PrintsOf(trace[k].scn)) <= 1
          /\ run.exc = "" => Cardinality(PrintsOf(trace[k].scn)) = 1
          /\ run.exc # "" /\ trace[Len(trace)].scn = trace[k].scn
                => PrintsOf(trace[k].scn) = {}
          /\ PrintedAfterPrediction(k)

\* C10 witness: the SMOTE and ADASYN cell ran to its end: two estimators were
\* fitted and each had its accuracy printed once, two lines in all.
C10_Witness ==
    /\ Completed("smote_adasyn")
    /\ Cardinality({trace[k].obj : k \in FitEvents}) = 2
    /\ Len(out["smote_adasyn"]) = 2
    /\ out["smote_adasyn"][1].scn = "smote"
    /\ out["smote_adasyn"][2].scn = "adasyn"

\* the names of the trained models of the two notebooks
ModelNames ==
    {"rf_model", "rf_model_smote", "rf_model_adasyn", "dt_model", "svm_model", "if_model",
     "bagging_model", "adaboost_model", "stacking_model"}

\* the calls of predict that were made on the object named obj in the last run
PredictsOn(obj) ==
    {q \in DOMAIN trace : trace[q].fn = "predict" /\ trace[q].obj = obj /\ trace[q].args # <<>>}

\* C11: a model object takes at most one predict in its life, and takes it after
\* its fit; every fit and predict is called on an object built earlier in the same
\* cell run, so no cell uses the model of another; and in a cell that ran to its
\* end every model fitted has taken exactly one predict.
C11_EstimatorConsumedOnce ==
    /\ \A m \in ModelNames :
          ns[m].t = "estimator"
             => /\ ns[m].predicts <= 1
                /\ ns[m].predicts = 1 => ns[m].fitted
    /\ \A k \in DOMAIN trace :
          trace[k].fn \in {"fit", "fit_inliers", "predict"} /\ trace[k].args # <<>>
             => /\ trace[k].obj \in ModelNames
                /\ \E j \in 1..(k - 1) :
                      trace[j].fn = "construct" /\ trace[j].ok /\ trace[j].obj = trace[k].obj
    /\ \A k \in FitEvents :
          /\ Cardinality(PredictsOn(trace[k].obj)) <= 1
          /\ \A q \in PredictsOn(trace[k].obj) : q > k
          /\ ns[trace[k].obj].predicts =
                Cardinality({q \in PredictsOn(trace[k].obj) : trace[q].ok})
          /\ run.exc = "" => ns[trace[k].obj].predicts = 1

\* C11 witness: the cost-sensitive cell ran to its end after the class weighting
\* cell had printed its accuracy with a tree of the same name; the tree now bound
\* to dt_model has predicted once.
C11_Witness ==
    /\ Completed("cost_sensitive")
    /\ out["class_weighting"] # <<>>
    /\ ns["dt_model"].fitted
    /\ ns["dt_model"].predicts = 1
    /\ Cardinality(PredictsOn("dt_model")) = 1

\* C12: in the stacking cell y_binary is 1 where the progression value is
\* greater than 150 and 0 elsewhere, a value of 150 included, and the labels
\* that reach the split and the classifier are 0 or 1.
C12_BinaryTargetAbove150 ==
    run.cell = "stacking"
       => /\ Len(trace) >= 3 /\ trace[3].ok
               => /\ ns["y"] = Vector(load_diabetes(world).target)
                  /\ Len(ns["y_binary"].v) = Len(ns["y"].v)
                  /\ \A i \in DOMAIN ns["y"].v :
                        /\ ns["y"].v[i] > 150 => ns["y_binary"].v[i] = 1
                        /\ ns["y"].v[i] <= 150 => ns["y_binary"].v[i] = 0
          /\ Len(trace) >= 4 /\ trace[4].ok
               => /\ trace[4].fn = "train_test_split"
                  /\ "y_binary" \in trace[4].reads
                  /\ Range(ns["y_train"].v) \cup Range(ns["y_test"].v) \subseteq {0, 1}
                  /\ Len(ns["y_train"].v) + Len(ns["y_test"].v) = Len(ns["y_binary"].v)
          /\ \A k \in FitEvents :
                /\ "y_train" \in trace[k].reads
                /\ Range(ns["stacking_model"].classes) \subseteq {0, 1}

\* C12 witness: the stacking cell ran to its end on a table that has a row of
\* progression 150, labelled 0, and a row of progression 151, labelled 1.
C12_Witness ==
    /\ Completed("stacking")
    /\ \E i \in DOMAIN ns["y"].v : ns["y"].v[i] = 150 /\ ns["y_binary"].v[i] = 0
    /\ \E i \in DOMAIN ns["y"].v : ns["y"].v[i] = 151 /\ ns["y_binary"].v[i] = 1
    /\ ns["stacking_model"].fitted

C15_DetectorFittedOnMajorityRows ==
    fout.stage = "fit"
       => LET rows == {fout.X[k][1] : k \in DOMAIN fout.X}
          IN  /\ \A i \in DOMAIN fin : fin[i] = 0 => i \in rows
              /\ \A i \in DOMAIN fin : fin[i] = 1 => i \notin rows
              /\ rows = {i \in DOMAIN fin : fin[i] # 1}
              /\ Cardinality(rows) = Len(fout.X)
              /\ \A j, k \in DOMAIN fout.X : j < k => fout.X[j][1] < fout.X[k][1]

\* C15 witness: labels 0 and 1 only, both present; the rows labelled 0 were
\* selected and there are fewer of them than training rows.
C15_Witness ==
    /\ fout.stage = "fit"
    /\ Range(fin) = {0, 1}
    /\ Len(fout.X) = Count(fin, 0)
    /\ Len(fout.X) < Len(fin)

\* the names a cell binds
BoundBy(c) == UNION {Range(Source(c)[k].tgt) : k \in DOMAIN Source(c)}

\* the cells that run a scenario, and the names they share: the imported names
\* and, in the imbalanced notebook, the names bound by the data cell
ScenarioCells == Cells \ {"imbalanced_imports", "imbalanced_data", "ensemble_imports"}
SharedNames(nb) ==
    IF nb = "imbalanced_learning"
      THEN BoundBy("imbalanced_imports") \cup BoundBy("imbalanced_data")
    ELSE BoundBy("ensemble_imports")

\* C16: in a run of a scenario cell, in whatever order and however often the
\* cells were run before, every name a statement reads is an imported name, a
\* name of the data cell (imbalanced notebook), or a name an earlier statement
\* of the same run has bound: no statement reads what another scenario cell left.
C16_CellReadsOnlyWhatItBinds ==
    run.cell \in ScenarioCells
       => \A k \in DOMAIN trace :
             \A v \in trace[k].reads :
                 \/ v \in SharedNames(notebook)
                 \/ \E j \in 1..(k - 1) : trace[j].ok /\ v \in trace[j].binds

\* C16 witness: the SMOTE cell ran to its end after the Tomek Links cell, which
\* uses the same names, had printed its accuracy.
C16_Witness ==
    /\ Completed("smote")
    /\ out["tomek_links"] # <<>>
    /\ ns["X_train_resampled"].t = "table"
    /\ \E k \in DOMAIN trace : "X_train_resampled" \in trace[k].reads

\* numpy's global generator is advanced by runs of the Isolation Forest cell only
OnlyIsolationForestDraws ==
    [][np_random' # np_random => run'.cell = "isolation_forest"]_vars

SplitNames == {"X_train", "X_test", "y_train", "y_test"}

\* C17: in the imbalanced notebook X_train, X_test, y_train and y_test, once
\* bound, hold what the split cell assigns, whatever scenario cells have run; no
\* statement of a scenario cell binds one of them; fit_resample binds only
\* resampled names and does not read X_test or y_test; a relabelling binds only
\* y_pred.
C17_ScenarioCellsLeaveSplitAlone ==
    notebook = "imbalanced_learning"
       => /\ ns["X_train"].t # "undef"
               => LET d == make_classification(world)
                      r == train_test_split(d.X, d.y, world.perm)
                  IN  /\ r.exc = ""
                      /\ ns["X_train"] = r.vals[1]
                      /\ ns["X_test"] = r.vals[2]
                      /\ ns["y_train"] = r.vals[3]
                      /\ ns["y_test"] = r.vals[4]
          /\ run.cell \in ScenarioCells
               => \A k \in DOMAIN trace :
                     /\ trace[k].binds \cap SplitNames = {}
                     /\ trace[k].fn = "fit_resample"
                          => /\ trace[k].binds \subseteq ResampledTables \cup ResampledLabels
                             /\ trace[k].reads \cap {"X_test", "y_test"} = {}
                     /\ trace[k].fn = "relabel" /\ trace[k].ok => trace[k].binds = {"y_pred"}

\* C17 witness: the One-Class SVM cell ran to its end, relabelling y_pred, after
\* the SMOTEENN cell had left a resampled set with another number of rows than
\* X_train.
C17_Witness ==
    /\ Completed("one_class_svm")
    /\ out["smote_enn"] # <<>>
    /\ ns["X_train_resampled"].t = "table"
    /\ Rows(ns["X_train_resampled"]) # Rows(ns["X_train"])
    /\ \E k \in DOMAIN trace : trace[k].fn = "relabel" /\ trace[k].ok

====
